---- MODULE Spec2Model ----
(***************************************************************************)
(* Double-buffered waveOut playback loop of pyQt5_waveplayer.               *)
(*   prog = "play" : AudioWriter.play(stream)      (src/audiosocket.py)     *)
(*   prog = "run"  : AudioWriter.run() in a thread (src/pyqtAudioWriter.py) *)
(*                   with a controlling thread calling pause(), resume(),   *)
(*                   stop(), isPlaying() and close().                       *)
(* The winmm device and the stream are the environment: every result the    *)
(* calls can return is a nondeterministic choice.                           *)
(***************************************************************************)
EXTENDS Naturals, Sequences, FiniteSets

VARIABLES
    prog,          \* which of the two loops this behaviour runs
    file,          \* self.file, the name of the file run() plays, as its characters
    BUFSIZE,       \* self.BUFSIZE, the configurable chunk size
    pc,            \* position of the scheduling loop
    headers,       \* self.headers[x].dwFlags, as the set of WHDR_* bits that are set
    freeids,       \* the part of freeids the fill pass has not visited yet
    curblock,      \* slot the completion wait polls
    stopping,      \* the local variable stopping
    prevlen,       \* the local variable prevlen
    readlen,       \* the local variable readlen
    divideBase,    \* the local variable divideBase, in hundredths
    pollsnum,      \* the local variable pollsnum
    ret,           \* the local variable ret: result of the latest completion poll
    spos,          \* stream position: bytes read so far
    streamOpen,    \* the stream is open
    devOpen,       \* the waveOut device is open
    fault,         \* what ended the loop abnormally, if anything did
    selfStopping,  \* self.stopping
    _isPlaying,    \* self._isPlaying
    playEvent,     \* self.playEvent is set
    lockPlay,      \* holder of self.lockPlay
    lockStop,      \* holder of self.lockStop
    ctl,           \* position of the controlling thread
    readlog,       \* history: every stream.read so far, in order
    scheduled,     \* history: every _schedule_block call so far, in order
    acc,           \* the access to a shared flag made by the latest step, if any
    ipRet,         \* the isPlaying() read made by the latest step, if any
    ctlStopped     \* history: the controlling thread called stop() during the session

vars == <<prog, file, BUFSIZE, ret, pc, headers, freeids, curblock, stopping, prevlen, readlen,
          divideBase, pollsnum, spos, streamOpen, devOpen, fault, selfStopping, _isPlaying,
          playEvent, lockPlay, lockStop, ctl, readlog, scheduled, acc, ipRet,
          ctlStopped>>

schedVars == <<headers, freeids, curblock, stopping, prevlen, readlen, divideBase,
               pollsnum, spos, readlog, scheduled>>
flagVars  == <<selfStopping, _isPlaying, playEvent, lockPlay, lockStop>>

\* no shared flag is accessed by a step
NoAcc == [flag |-> "none", by |-> "none", locked |-> TRUE]
\* no isPlaying() read is made by a step
NoRet == [val |-> FALSE, phase |-> "none"]
\* a step that accesses no shared flag
Quiet == acc' = NoAcc /\ ipRet' = NoRet

----------------------------------------------------------------------------
(* Bounds of the model *)

\* non-empty chunks a stream yields before its zero-length read
MaxChunks == 4
\* completion polls of one wait that may find the block still playing
MaxPolls == 1

----------------------------------------------------------------------------
(* Constants and pure helpers *)

\* len(self.headers)
blocknum == 2

Slots == 0 .. (blocknum - 1)

\* self.BUFSIZE: the default of each class, and the configured 4096 of the scenarios
BufSizes(p) == IF p = "play" THEN {100 * 2^10, 4096} ELSE {40 * 2^10}

\* lengths a non-empty stream.read(BUFSIZE) may return: full, short, short and odd
\* (with the scenarios' buffer size, the scenarios' second short length as well)
ReadLens(b) == IF b = 4096 THEN {b, 2000, 1500, 999} ELSE {b, 2000, 999}

\* size of the header run() skips in a file named *.wav
WAV_HEADER_SIZE == 44

\* the file names run() is given: a .wav file, the same suffix in capitals, and a
\* file of raw samples (play() is handed an open stream: no name)
FileNames(p) ==
    IF p = "play" THEN {<<>>}
    ELSE {<<"a", ".", "w", "a", "v">>, <<"A", ".", "W", "A", "V">>,
          <<"a", ".", "r", "a", "w">>}

\* str.lower() of one character
LowerChar(c) ==
    CASE c = "A" -> "a" [] c = "V" -> "v" [] c = "W" -> "w" [] OTHER -> c

\* a plausible bug: the file name is compared as it is
LowerNone(s) == s

\* str.lower()
Lower(s) == [i \in DOMAIN s |-> LowerChar(s[i])]

\* str.endswith(suffix)
EndsWith(s, suffix) ==
    /\ Len(s) >= Len(suffix)
    /\ SubSeq(s, Len(s) - Len(suffix) + 1, Len(s)) = suffix

\* where the first stream.read of run() starts:
\* if self.file.lower().endswith('.wav'): stream.seek(WAV_HEADER_SIZE, 0)
SeekPos(f) == IF EndsWith(Lower(f), <<".", "w", "a", "v">>) THEN WAV_HEADER_SIZE ELSE 0

\* a plausible bug: a block the device has finished counts as reclaimable
IsFreeWhenPlayed(f) == "INQUEUE" \notin f

\* self.headers[x].dwFlags in (0, WHDR_DONE)
IsFree(f) == f = {} \/ f = {"DONE"}

RECURSIVE FreeFrom(_, _)
FreeFrom(h, x) ==
    IF x >= blocknum THEN <<>>
    ELSE (IF IsFree(h[x]) THEN <<x>> ELSE <<>>) \o FreeFrom(h, x + 1)

\* a plausible bug: every slot is taken to be reclaimable
FreeIdsAll(h) == [x \in 1 .. blocknum |-> x - 1]

\* freeids = [x for x in range(blocknum) if self.headers[x].dwFlags in (0, WHDR_DONE)]
FreeIds(h) == FreeFrom(h, 0)

\* a slot is in flight from its submission (waveOutPrepareHeader) until a
\* successful waveOutUnprepareHeader
InFlight(f) == "PREPARED" \in f

\* prevlen < self.BUFSIZE and readlen < self.BUFSIZE
Underrun(prev, len, b) == prev < b /\ len < b

\* array.array('h').frombytes(data) raises ValueError unless len(data) is a
\* multiple of the item size 2
FromBytesOk(len) == len % 2 = 0

\* winmm.waveOutPrepareHeader on success: WHDR_PREPARED set, WHDR_DONE cleared
Prepared(f) == (f \ {"DONE"}) \cup {"PREPARED"}

\* winmm.waveOutWrite on success: the block is queued
Written(f) == (f \ {"DONE"}) \cup {"INQUEUE"}

\* the device finishes a queued block: WHDR_INQUEUE cleared, WHDR_DONE set
Finished(f) == (f \ {"INQUEUE"}) \cup {"DONE"}

\* winmm.waveOutUnprepareHeader on success: WHDR_PREPARED cleared
Unprepared(f) == f \ {"PREPARED"}

\* a plausible bug: playEvent.wait() returns although the event is clear
EventIsSetAlways(e) == TRUE

\* self.playEvent.wait() returns only while the event is set
EventIsSet(e) == e

\* a plausible bug: the factor is raised after every completion wait
TunedAlways(d, polls) == d + 1

\* if pollsnum == 1: divideBase += 0.01   (the factor is kept in hundredths)
Tuned(d, polls) == IF polls = 1 THEN d + 1 ELSE d

\* a plausible bug: the cursor is left on the slot just reclaimed
NextBlockSame(c) == c

\* curblock = (curblock + 1) % len(self.headers)
NextBlock(c) == (c + 1) % blocknum

\* a plausible bug: a zero-length read does not set stopping
StoppingAtEofNever(p) == FALSE

\* a zero-length read sets the local stopping in play(); run() calls self.stop()
\* instead and leaves its local as it is (False)
StoppingAtEof(p) == p = "play"

\* what winmm.waveOutUnprepareHeader may return for a header: WAVERR_STILLPLAYING
\* while the block is queued, MMSYSERR_NOERROR once it is not, or an error code
UnprepareResults(f) ==
    (IF "INQUEUE" \in f THEN {"STILLPLAYING"} ELSE {"NOERROR"}) \cup {"ERROR"}

\* the loop has been started and has not ended
Live == pc \notin {"idle", "done", "closed", "crashed"}

\* where the loop goes for its next iteration
LoopTop == IF prog = "play" THEN "top" ELSE "wait"

\* a plausible bug: a block that is still playing is treated as a failure
AfterPollNoRetry(r) == IF r # "NOERROR" THEN "crashed" ELSE LoopTop

\* if ret == WAVERR_STILLPLAYING: continue; if ret != MMSYSERR_NOERROR: sys.exit; break
AfterPoll(r) ==
    IF r = "STILLPLAYING" THEN "poll"
    ELSE IF r # "NOERROR" THEN "crashed" ELSE LoopTop

----------------------------------------------------------------------------
(* Initial state: the object is constructed and open() has succeeded *)

Init ==
    /\ prog \in {"play", "run"}
    /\ file \in FileNames(prog)
    /\ BUFSIZE \in BufSizes(prog)
    /\ pc = IF prog = "play" THEN "begin" ELSE "idle"
    /\ headers = [x \in Slots |-> {}]
    /\ freeids = <<>>
    /\ curblock = 0
    /\ stopping = FALSE
    /\ prevlen = 0
    /\ readlen = 0
    /\ divideBase = 105
    /\ pollsnum = 0
    /\ ret = "none"
    /\ spos = 0
    /\ streamOpen = (prog = "play")
    /\ devOpen = TRUE
    /\ fault = "none"
    /\ selfStopping = FALSE
    /\ _isPlaying = FALSE
    /\ playEvent = TRUE
    /\ lockPlay = "free"
    /\ lockStop = "free"
    /\ ctl = "ready"
    /\ readlog = <<>>
    /\ scheduled = <<>>
    /\ acc = NoAcc
    /\ ipRet = NoRet
    /\ ctlStopped = FALSE

----------------------------------------------------------------------------
(* The scheduling loop *)

\* threading.Thread.start(), called by the controlling thread
Start ==
    /\ prog = "run" /\ pc = "idle" /\ ctl = "ready"
    /\ pc' = "begin"
    /\ Quiet
    /\ UNCHANGED <<prog, file, BUFSIZE, ret, schedVars, streamOpen, devOpen, fault, flagVars, ctl,
                   ctlStopped>>

\* run(): open the file, skip the header of a .wav file, initialise the locals
RunBegin ==
    /\ prog = "run" /\ pc = "begin"
    /\ streamOpen' = TRUE
    /\ spos' = SeekPos(file)
    /\ curblock' = 0 /\ stopping' = FALSE /\ prevlen' = 0 /\ divideBase' = 105
    /\ pc' = "lockPlay1"
    /\ Quiet
    /\ UNCHANGED <<prog, file, BUFSIZE, ret, headers, freeids, readlen, pollsnum, readlog, scheduled,
                   devOpen, fault, flagVars, ctl, ctlStopped>>

\* play(stream): initialise the locals
PlayBegin ==
    /\ prog = "play" /\ pc = "begin"
    /\ curblock' = 0 /\ stopping' = FALSE /\ prevlen' = 0 /\ divideBase' = 105
    /\ pc' = "top"
    /\ Quiet
    /\ UNCHANGED <<prog, file, BUFSIZE, ret, headers, freeids, readlen, pollsnum, spos, readlog,
                   scheduled, streamOpen, devOpen, fault, flagVars, ctl, ctlStopped>>

\* run(): self.lockPlay.acquire(), before either write of self._isPlaying
AcquireLockPlay ==
    /\ pc \in {"lockPlay1", "lockPlay2"}
    /\ lockPlay = "free"
    /\ lockPlay' = "run"
    /\ pc' = IF pc = "lockPlay1" THEN "setPlaying" ELSE "clearPlaying"
    /\ Quiet
    /\ UNCHANGED <<prog, file, BUFSIZE, ret, schedVars, streamOpen, devOpen, fault, selfStopping, _isPlaying,
                   playEvent, lockStop, ctl, ctlStopped>>

\* run(): self._isPlaying = True; self.lockPlay.release()
SetPlaying ==
    /\ pc = "setPlaying"
    /\ _isPlaying' = TRUE
    /\ acc' = [flag |-> "_isPlaying", by |-> "run", locked |-> (lockPlay = "run")]
    /\ lockPlay' = "free"
    /\ pc' = "wait"
    /\ ipRet' = NoRet
    /\ UNCHANGED <<prog, file, BUFSIZE, ret, schedVars, streamOpen, devOpen, fault, selfStopping, playEvent,
                   lockStop, ctl, ctlStopped>>

\* run(): self.playEvent.wait(), then the list of reclaimable slots
PlayEventWait ==
    /\ pc = "wait"
    /\ EventIsSet(playEvent)
    /\ freeids' = FreeIds(headers)
    /\ pc' = "lockStop1"
    /\ Quiet
    /\ UNCHANGED <<prog, file, BUFSIZE, ret, headers, curblock, stopping, prevlen, readlen,
                   divideBase, pollsnum, spos, readlog, scheduled, streamOpen, devOpen, fault,
                   flagVars, ctl, ctlStopped>>

\* run(): self.lockStop.acquire() of the termination check, and of self.stop()
AcquireLockStop ==
    /\ pc \in {"lockStop1", "eofLock"}
    /\ lockStop = "free"
    /\ lockStop' = "run"
    /\ pc' = IF pc = "lockStop1" THEN "readStop" ELSE "eofSet"
    /\ Quiet
    /\ UNCHANGED <<prog, file, BUFSIZE, ret, schedVars, streamOpen, devOpen, fault, selfStopping, _isPlaying,
                   playEvent, lockPlay, ctl, ctlStopped>>

\* a plausible divergence of the copy: run() tests its local stopping before it
\* refreshes the local from self.stopping, and so breaks one iteration late
ReadStoppingStale ==
    /\ pc = "readStop"
    /\ stopping' = selfStopping
    /\ acc' = [flag |-> "stopping", by |-> "run", locked |-> (lockStop = "run")]
    /\ lockStop' = "free"
    /\ pc' = IF stopping THEN "closing" ELSE "fill"
    /\ ipRet' = NoRet
    /\ UNCHANGED <<prog, file, BUFSIZE, ret, headers, freeids, curblock, prevlen, readlen, divideBase,
                   pollsnum, spos, readlog, scheduled, streamOpen, devOpen, fault, selfStopping,
                   _isPlaying, playEvent, lockPlay, ctl, ctlStopped>>

\* run(): stopping = self.stopping; release; if stopping: break
ReadStopping ==
    /\ pc = "readStop"
    /\ stopping' = selfStopping
    /\ acc' = [flag |-> "stopping", by |-> "run", locked |-> (lockStop = "run")]
    /\ lockStop' = "free"
    /\ pc' = IF selfStopping THEN "closing" ELSE "fill"
    /\ ipRet' = NoRet
    /\ UNCHANGED <<prog, file, BUFSIZE, ret, headers, freeids, curblock, prevlen, readlen, divideBase,
                   pollsnum, spos, readlog, scheduled, streamOpen, devOpen, fault, selfStopping,
                   _isPlaying, playEvent, lockPlay, ctl, ctlStopped>>

\* play(): the list of reclaimable slots and the termination check
PlayTop ==
    /\ prog = "play" /\ pc = "top"
    /\ freeids' = FreeIds(headers)
    /\ pc' = IF Len(FreeIds(headers)) = blocknum /\ stopping THEN "done" ELSE "fill"
    /\ Quiet
    /\ UNCHANGED <<prog, file, BUFSIZE, ret, headers, curblock, stopping, prevlen, readlen,
                   divideBase, pollsnum, spos, readlog, scheduled, streamOpen, devOpen, fault,
                   flagVars, ctl, ctlStopped>>

\* the fill pass is over (no slot left, or stopping): pollsnum = 0 and the sleep
FillEnd ==
    /\ pc = "fill"
    /\ freeids = <<>> \/ stopping
    /\ pollsnum' = 0
    /\ pc' = "poll"
    /\ Quiet
    /\ UNCHANGED <<prog, file, BUFSIZE, ret, headers, freeids, curblock, stopping, prevlen, readlen,
                   divideBase, spos, readlog, scheduled, streamOpen, devOpen, fault, flagVars,
                   ctl, ctlStopped>>

\* lengths the next stream.read may return
NextLens == IF Len(readlog) < MaxChunks THEN ReadLens(BUFSIZE) \cup {0} ELSE {0}

\* data = stream.read(self.BUFSIZE); readlen = len(data); the underrun test
Read(len) ==
    /\ pc = "fill"
    /\ freeids # <<>> /\ ~stopping
    /\ len \in NextLens
    /\ readlen' = len
    /\ spos' = spos + len
    /\ readlog' = Append(readlog, [off |-> spos, len |-> len,
                                   warn |-> (len # 0 /\ Underrun(prevlen, len, BUFSIZE)),
                                   prev |-> prevlen])

\* _schedule_block(data, self.headers[i]) is entered with the chunk just read
Submit(len) ==
    scheduled' = Append(scheduled, [slot |-> Head(freeids), off |-> spos, len |-> len])

\* a zero-length read: stopping = True (play), self.stop() (run); break
FillEof ==
    /\ Read(0)
    /\ stopping' = StoppingAtEof(prog)
    /\ pollsnum' = IF prog = "play" THEN 0 ELSE pollsnum
    /\ pc' = IF prog = "play" THEN "poll" ELSE "eofLock"
    /\ Quiet
    /\ UNCHANGED <<prog, file, BUFSIZE, ret, headers, freeids, curblock, prevlen, divideBase,
                   scheduled, streamOpen, devOpen, fault, flagVars, ctl, ctlStopped>>

\* a plausible bug: the zero-length read leaves the while loop at once, without the
\* completion wait
EofStopLeaving ==
    /\ pc = "eofSet"
    /\ selfStopping' = TRUE
    /\ acc' = [flag |-> "stopping", by |-> "run", locked |-> (lockStop = "run")]
    /\ lockStop' = "free"
    /\ pollsnum' = 0
    /\ pc' = "closing"
    /\ ipRet' = NoRet
    /\ UNCHANGED <<prog, file, BUFSIZE, ret, headers, freeids, curblock, stopping, prevlen, readlen,
                   divideBase, spos, readlog, scheduled, streamOpen, devOpen, fault, _isPlaying,
                   playEvent, lockPlay, ctl, ctlStopped>>

\* run(): the body of self.stop() called on a zero-length read, then break
EofStop ==
    /\ pc = "eofSet"
    /\ selfStopping' = TRUE
    /\ acc' = [flag |-> "stopping", by |-> "run", locked |-> (lockStop = "run")]
    /\ lockStop' = "free"
    /\ pollsnum' = 0
    /\ pc' = "poll"
    /\ ipRet' = NoRet
    /\ UNCHANGED <<prog, file, BUFSIZE, ret, headers, freeids, curblock, stopping, prevlen, readlen,
                   divideBase, spos, readlog, scheduled, streamOpen, devOpen, fault, _isPlaying,
                   playEvent, lockPlay, ctl, ctlStopped>>

\* a chunk of odd length: shortArray.frombytes(data) raises ValueError
FillBadChunk ==
    \E len \in NextLens \ {0} :
        /\ Read(len)
        /\ ~FromBytesOk(len)
        /\ pc' = "crashed" /\ fault' = "ValueError"
        /\ Quiet
        /\ UNCHANGED <<prog, file, BUFSIZE, ret, headers, freeids, curblock, stopping, prevlen,
                       divideBase, pollsnum, scheduled, streamOpen, devOpen, flagVars, ctl,
                       ctlStopped>>

\* a chunk is read and its block is prepared and written
FillSchedule ==
    \E len \in NextLens \ {0} :
        /\ Read(len)
        /\ FromBytesOk(len)
        /\ Submit(len)
        /\ headers' = [headers EXCEPT ![Head(freeids)] = Written(Prepared(@))]
        /\ freeids' = Tail(freeids)
        /\ pc' = "fill"
        /\ Quiet
        /\ UNCHANGED <<prog, file, BUFSIZE, ret, curblock, stopping, prevlen, divideBase, pollsnum,
                       streamOpen, devOpen, fault, flagVars, ctl, ctlStopped>>

\* waveOutPrepareHeader fails: sys.exit
FillPrepareFail ==
    \E len \in NextLens \ {0} :
        /\ Read(len)
        /\ FromBytesOk(len)
        /\ Submit(len)
        /\ pc' = "crashed" /\ fault' = "waveOutPrepareHeader"
        /\ Quiet
        /\ UNCHANGED <<prog, file, BUFSIZE, ret, headers, freeids, curblock, stopping, prevlen,
                       divideBase, pollsnum, streamOpen, devOpen, flagVars, ctl,
                       ctlStopped>>

\* waveOutWrite fails on the prepared header: sys.exit
FillWriteFail ==
    \E len \in NextLens \ {0} :
        /\ Read(len)
        /\ FromBytesOk(len)
        /\ Submit(len)
        /\ headers' = [headers EXCEPT ![Head(freeids)] = Prepared(@)]
        /\ pc' = "crashed" /\ fault' = "waveOutWrite"
        /\ Quiet
        /\ UNCHANGED <<prog, file, BUFSIZE, ret, freeids, curblock, stopping, prevlen, divideBase,
                       pollsnum, streamOpen, devOpen, flagVars, ctl, ctlStopped>>

\* waveOutUnprepareHeader(headers[curblock]) returns WAVERR_STILLPLAYING: continue
PollStill ==
    /\ pc = "poll"
    /\ pollsnum < MaxPolls
    /\ pollsnum' = pollsnum + 1
    /\ ret' = "STILLPLAYING" /\ ret' \in UnprepareResults(headers[curblock])
    /\ pc' = AfterPoll(ret')
    /\ Quiet
    /\ UNCHANGED <<prog, file, BUFSIZE, headers, freeids, curblock, stopping, prevlen,
                   readlen, divideBase, spos, readlog, scheduled, streamOpen, devOpen, fault,
                   flagVars, ctl, ctlStopped>>

\* waveOutUnprepareHeader returns MMSYSERR_NOERROR: the factor is tuned, the cursor
\* advances, prevlen = readlen
PollDone ==
    /\ pc = "poll"
    /\ pollsnum' = pollsnum + 1
    /\ ret' = "NOERROR" /\ ret' \in UnprepareResults(headers[curblock])
    /\ headers' = [headers EXCEPT ![curblock] = Unprepared(@)]
    /\ divideBase' = Tuned(divideBase, pollsnum + 1)
    /\ curblock' = NextBlock(curblock)
    /\ prevlen' = readlen
    /\ pc' = AfterPoll(ret')
    /\ Quiet
    /\ UNCHANGED <<prog, file, BUFSIZE, freeids, stopping, readlen, spos, readlog, scheduled,
                   streamOpen, devOpen, fault, flagVars, ctl, ctlStopped>>

\* waveOutUnprepareHeader returns any other code: sys.exit
PollError ==
    /\ pc = "poll"
    /\ pollsnum' = pollsnum + 1
    /\ ret' = "ERROR" /\ ret' \in UnprepareResults(headers[curblock])
    /\ pc' = AfterPoll(ret') /\ fault' = "waveOutUnprepareHeader"
    /\ Quiet
    /\ UNCHANGED <<prog, file, BUFSIZE, headers, freeids, curblock, stopping, prevlen, readlen,
                   divideBase, spos, readlog, scheduled, streamOpen, devOpen, flagVars,
                   ctl, ctlStopped>>

\* run(): stream.close() after the loop
StreamClose ==
    /\ pc = "closing"
    /\ streamOpen' = FALSE
    /\ pc' = "resetStop"
    /\ Quiet
    /\ UNCHANGED <<prog, file, BUFSIZE, ret, schedVars, devOpen, fault, flagVars, ctl, ctlStopped>>

\* run(): self.stopping = False
ResetStopping ==
    /\ pc = "resetStop"
    /\ selfStopping' = FALSE
    /\ acc' = [flag |-> "stopping", by |-> "run", locked |-> (lockStop = "run")]
    /\ pc' = "lockPlay2"
    /\ ipRet' = NoRet
    /\ UNCHANGED <<prog, file, BUFSIZE, ret, schedVars, streamOpen, devOpen, fault, _isPlaying, playEvent,
                   lockPlay, lockStop, ctl, ctlStopped>>

\* run(): self._isPlaying = False; self.lockPlay.release(); run() returns
ClearPlaying ==
    /\ pc = "clearPlaying"
    /\ _isPlaying' = FALSE
    /\ acc' = [flag |-> "_isPlaying", by |-> "run", locked |-> (lockPlay = "run")]
    /\ lockPlay' = "free"
    /\ pc' = "done"
    /\ ipRet' = NoRet
    /\ UNCHANGED <<prog, file, BUFSIZE, ret, schedVars, streamOpen, devOpen, fault, selfStopping, playEvent,
                   lockStop, ctl, ctlStopped>>

\* close() after the session (and, for play(), the with block of the caller that
\* closes the stream): waveOutClose fails while a block is still queued
Close ==
    /\ pc = "done" /\ ctl = "ready"
    /\ devOpen' = (\E x \in Slots : "INQUEUE" \in headers[x])
    /\ streamOpen' = IF prog = "play" THEN FALSE ELSE streamOpen
    /\ pc' = "closed"
    /\ Quiet
    /\ UNCHANGED <<prog, file, BUFSIZE, ret, schedVars, fault, flagVars, ctl, ctlStopped>>

----------------------------------------------------------------------------
(* The device *)

\* the device finishes playing a queued block (in any order: the loop does not
\* rely on the order in which the device finishes blocks)
DeviceDone(x) ==
    /\ devOpen
    /\ "INQUEUE" \in headers[x]
    /\ headers' = [headers EXCEPT ![x] = Finished(@)]
    /\ Quiet
    /\ UNCHANGED <<prog, file, BUFSIZE, ret, pc, freeids, curblock, stopping, prevlen, readlen,
                   divideBase, pollsnum, spos, readlog, scheduled, streamOpen, devOpen,
                   fault, flagVars, ctl, ctlStopped>>

----------------------------------------------------------------------------
(* The controlling thread (prog = "run") *)

\* where run() is, as isPlaying() is meant to report it
Phase ==
    IF pc = "idle" THEN "before"
    ELSE IF pc \in {"done", "closed", "crashed"} THEN "after" ELSE "running"

\* pause(): self.playEvent.clear()
Pause ==
    /\ prog = "run" /\ ctl = "ready"
    /\ playEvent' = FALSE
    /\ Quiet
    /\ UNCHANGED <<prog, file, BUFSIZE, ret, pc, schedVars, streamOpen, devOpen, fault, selfStopping,
                   _isPlaying, lockPlay, lockStop, ctl, ctlStopped>>

\* resume(): self.playEvent.set()
Resume ==
    /\ prog = "run" /\ ctl = "ready"
    /\ playEvent' = TRUE
    /\ Quiet
    /\ UNCHANGED <<prog, file, BUFSIZE, ret, pc, schedVars, streamOpen, devOpen, fault, selfStopping,
                   _isPlaying, lockPlay, lockStop, ctl, ctlStopped>>

\* stop(): self.lockStop.acquire()
StopAcquire ==
    /\ prog = "run" /\ ctl = "ready"
    /\ lockStop = "free"
    /\ lockStop' = "ctl"
    /\ ctl' = "stop"
    /\ Quiet
    /\ UNCHANGED <<prog, file, BUFSIZE, ret, pc, schedVars, streamOpen, devOpen, fault, selfStopping,
                   _isPlaying, playEvent, lockPlay, ctlStopped>>

\* a plausible bug: stop() also resets the device (waveOutReset), which marks every
\* queued block done
StopSetResetting ==
    /\ ctl = "stop"
    /\ selfStopping' = TRUE
    /\ headers' = [x \in Slots |->
                      IF "INQUEUE" \in headers[x] THEN Finished(headers[x]) ELSE headers[x]]
    /\ acc' = [flag |-> "stopping", by |-> "ctl", locked |-> (lockStop = "ctl")]
    /\ ctlStopped' = (ctlStopped \/ Live)
    /\ lockStop' = "free"
    /\ ctl' = "ready"
    /\ ipRet' = NoRet
    /\ UNCHANGED <<prog, file, BUFSIZE, ret, pc, freeids, curblock, stopping, prevlen,
                   readlen, divideBase, pollsnum, spos, readlog, scheduled, streamOpen,
                   devOpen, fault, _isPlaying, playEvent, lockPlay>>

\* stop(): self.stopping = True; self.lockStop.release()
StopSet ==
    /\ ctl = "stop"
    /\ selfStopping' = TRUE
    /\ acc' = [flag |-> "stopping", by |-> "ctl", locked |-> (lockStop = "ctl")]
    /\ ctlStopped' = (ctlStopped \/ Live)
    /\ lockStop' = "free"
    /\ ctl' = "ready"
    /\ ipRet' = NoRet
    /\ UNCHANGED <<prog, file, BUFSIZE, ret, pc, schedVars, streamOpen, devOpen, fault, _isPlaying,
                   playEvent, lockPlay>>

\* isPlaying(): self.lockPlay.acquire()
IsPlayingAcquire ==
    /\ prog = "run" /\ ctl = "ready"
    /\ lockPlay = "free"
    /\ lockPlay' = "ctl"
    /\ ctl' = "isPlaying"
    /\ Quiet
    /\ UNCHANGED <<prog, file, BUFSIZE, ret, pc, schedVars, streamOpen, devOpen, fault, selfStopping,
                   _isPlaying, playEvent, lockStop, ctlStopped>>

\* isPlaying(): isPlaying = self._isPlaying; release; return isPlaying
IsPlayingRead ==
    /\ ctl = "isPlaying"
    /\ ipRet' = [val |-> _isPlaying, phase |-> Phase]
    /\ acc' = [flag |-> "_isPlaying", by |-> "ctl", locked |-> (lockPlay = "ctl")]
    /\ lockPlay' = "free"
    /\ ctl' = "ready"
    /\ UNCHANGED <<prog, file, BUFSIZE, ret, pc, schedVars, streamOpen, devOpen, fault, selfStopping,
                   _isPlaying, playEvent, lockStop, ctlStopped>>

----------------------------------------------------------------------------
(* Specifications *)

Next ==
    \/ Start \/ RunBegin \/ PlayBegin \/ AcquireLockPlay \/ SetPlaying
    \/ PlayEventWait \/ AcquireLockStop \/ ReadStopping \/ PlayTop
    \/ FillEnd \/ FillSchedule \/ FillEof \/ EofStop
    \/ FillPrepareFail \/ FillWriteFail \/ FillBadChunk
    \/ PollStill \/ PollDone \/ PollError
    \/ StreamClose \/ ResetStopping \/ ClearPlaying \/ Close
    \/ \E x \in Slots : DeviceDone(x)
    \/ Pause \/ Resume \/ StopAcquire \/ StopSet \/ IsPlayingAcquire \/ IsPlayingRead

Spec == Init /\ [][Next]_vars

\* the steps of the scheduling loop
Sched ==
    \/ RunBegin \/ PlayBegin \/ SetPlaying \/ PlayEventWait \/ ReadStopping \/ PlayTop
    \/ FillEnd \/ FillSchedule \/ FillEof \/ EofStop
    \/ FillPrepareFail \/ FillWriteFail \/ FillBadChunk
    \/ PollStill \/ PollDone \/ PollError
    \/ StreamClose \/ ResetStopping \/ ClearPlaying

\* Fair scheduling: the loop's thread keeps running, a lock that keeps being released
\* is eventually acquired, a critical section of the controlling thread is left, and
\* the device finishes every queued block.  Nothing obliges the controlling thread
\* to call pause(), resume(), stop(), isPlaying() or close().
FairSpec ==
    /\ Spec
    /\ WF_vars(Sched)
    /\ SF_vars(AcquireLockPlay) /\ SF_vars(AcquireLockStop)
    /\ WF_vars(StopSet) /\ WF_vars(IsPlayingRead)
    /\ \A x \in Slots : WF_vars(DeviceDone(x))

----------------------------------------------------------------------------
(* Properties *)

\* the chunks returned by the non-empty reads so far
ReadChunks ==
    LET ne == SelectSeq(readlog, LAMBDA r : r.len # 0)
    IN  [k \in DOMAIN ne |-> [off |-> ne[k].off, len |-> ne[k].len]]

\* the chunks passed to _schedule_block so far
ScheduledChunks ==
    [k \in DOMAIN scheduled |-> [off |-> scheduled[k].off, len |-> scheduled[k].len]]

\* the loop has left its while loop (run() is past its break, play() has returned)
LoopLeft == pc \in {"closing", "resetStop", "lockPlay2", "clearPlaying", "done", "closed"}

\* C1: in play() and run(), the chunks passed to _schedule_block are at every point
\* exactly the non-empty chunks stream.read has returned so far, in the same order
\* (none dropped, none submitted twice, none out of order).
C1_SubmittedIsRead == ScheduledChunks = ReadChunks

\* C2: at most blocknum slots are in flight, and _schedule_block is never called on
\* a slot that was submitted and has not been reclaimed by a successful
\* waveOutUnprepareHeader of that slot.
C2_NoResubmitInFlight ==
    /\ [](Cardinality({x \in Slots : InFlight(headers[x])}) <= blocknum)
    /\ [][Len(scheduled') > Len(scheduled)
            => ~InFlight(headers[scheduled'[Len(scheduled')].slot])]_vars

\* C2 witness: a slot that was reclaimed has been submitted again while the other
\* slot is still in flight
C2_Witness ==
    /\ Len(scheduled) = 3
    /\ scheduled[3].slot = scheduled[1].slot
    /\ \A x \in Slots : InFlight(headers[x])

\* C3: the underrun warning is raised on a non-empty read if and only if that read
\* and the read immediately before it both returned fewer than BUFSIZE bytes and
\* neither was the zero-length read; a single short read is never flagged.
C3_UnderrunIffTwoShortReads ==
    \A k \in DOMAIN readlog :
        readlog[k].len # 0 =>
            (readlog[k].warn <=>
                /\ k > 1
                /\ readlog[k - 1].len # 0
                /\ readlog[k - 1].len < BUFSIZE
                /\ readlog[k].len < BUFSIZE)

\* C4: after stop() was called from the other thread during a session, run() leaves
\* its loop only with no slot in flight.
C4_StopExitsDrained ==
    (prog = "run" /\ ctlStopped /\ LoopLeft) => \A x \in Slots : ~InFlight(headers[x])

\* C5: in run(), no chunk read after stop() set self.stopping is passed to
\* _schedule_block.
C5_NoSubmitAfterStop ==
    [][(prog = "run" /\ Len(scheduled') > Len(scheduled)) => ~selfStopping]_vars

\* C6: once stop() has been called during a session, run() eventually reaches its
\* exit, whatever the lifecycle state, paused included, provided the device completes
\* every block (no device failure) and the loop's thread is scheduled fairly.
C6_StopLeadsToExit ==
    (prog = "run" /\ Live /\ selfStopping) ~> (pc \in {"done", "closed", "crashed"})

\* C7 as stated: between pause() and the next resume() the loop performs no
\* stream.read and no _schedule_block call.
C7_NoReadWhilePaused ==
    [][~playEvent => (readlog' = readlog /\ scheduled' = scheduled)]_vars

\* C7 amended: once the loop is at playEvent.wait() with the event cleared by pause(),
\* it stays there and performs no stream.read and no _schedule_block call until
\* resume(); only the iteration that had already passed playEvent.wait() still
\* reads and submits.
C7_SuspendedAtWait ==
    [][(~playEvent /\ pc = "wait")
          => (pc' = "wait" /\ readlog' = readlog /\ scheduled' = scheduled)]_vars

\* C7 witness: the loop is suspended at playEvent.wait() in mid-session, with a
\* block in flight
C7_Witness ==
    /\ ~playEvent /\ pc = "wait"
    /\ Len(scheduled) >= 2
    /\ \E x \in Slots : InFlight(headers[x])

\* C8: isPlaying() returns True between the return of start() and the exit of
\* run(), and False before start() and after run() has ended, on every exit path.
C8_IsPlayingTracksRun ==
    /\ ipRet.phase = "running" => ipRet.val
    /\ ipRet.phase \in {"before", "after"} => ~ipRet.val

\* C9: every read and write of self._isPlaying is made holding lockPlay and every
\* read and write of self.stopping is made holding lockStop.
C9_FlagsUnderLock == acc.flag # "none" => acc.locked

\* C10: on every exit path the claim names (the end of the session after close(), a
\* failed submission, a failed completion poll), the stream opened by run() and the
\* audio device are closed when the session has ended.
C10_ClosedOnEveryExit ==
    (pc = "closed" \/ (pc = "crashed" /\ fault # "ValueError"))
        => (~devOpen /\ (prog = "run" => ~streamOpen))

\* a completion wait ends with the step that takes the loop from its poll to the top
\* of the next iteration
WaitEnds == pc = "poll" /\ pc' = LoopTop

\* C11: divideBase starts at 1.05 (105 hundredths), never decreases, and changes only
\* at the end of a completion wait, where it grows by exactly 0.01 if the wait took
\* exactly one poll and is left unchanged if it took more than one.
C11_FactorTuning ==
    /\ [](pc \in {"idle", "begin"} => divideBase = 105)
    /\ [][pc = "begin" => divideBase' = 105]_vars
    /\ [][divideBase' >= divideBase]_vars
    /\ [][(WaitEnds /\ pollsnum' = 1) => divideBase' = divideBase + 1]_vars
    /\ [][(WaitEnds /\ pollsnum' > 1) => divideBase' = divideBase]_vars
    /\ [][~WaitEnds => divideBase' = divideBase]_vars

\* C11 witness: an earlier wait took one poll and raised the factor, the wait that
\* has just ended took two polls
C11_Witness ==
    /\ pc = LoopTop /\ pollsnum = 2
    /\ divideBase = 106
    /\ Len(scheduled) >= 2

\* a winmm call has failed: the premise "the device completes every block" is void
DeviceFailed ==
    fault \in {"waveOutPrepareHeader", "waveOutWrite", "waveOutUnprepareHeader"}

\* play() has returned
PlayReturned == prog = "play" /\ pc \in {"done", "closed"}

\* C12: for every source of k >= 0 non-empty chunks followed by a zero-length read
\* and a device that completes every block, play() returns; it returns only with
\* stopping set, every slot reclaimable and none in flight, and with exactly the k
\* chunks of the source submitted.
C12_PlayTerminatesDrained ==
    /\ (prog = "play") ~> (PlayReturned \/ DeviceFailed)
    /\ [](PlayReturned =>
            /\ stopping
            /\ \A x \in Slots : IsFree(headers[x]) /\ ~InFlight(headers[x])
            /\ readlog # <<>> /\ readlog[Len(readlog)].len = 0
            /\ ScheduledChunks = ReadChunks)

\* the latest stream.read returned no data: the stream is at its end
EofRead == readlog # <<>> /\ readlog[Len(readlog)].len = 0

\* the name ends with ".wav" in any mix of capitals and small letters
NamedWav(f) ==
    /\ Len(f) >= 4
    /\ f[Len(f) - 3] = "."
    /\ f[Len(f) - 2] \in {"w", "W"}
    /\ f[Len(f) - 1] \in {"a", "A"}
    /\ f[Len(f)] \in {"v", "V"}

\* C13: in run(), the first chunk submitted starts at file offset 44 when the file
\* name ends with ".wav" in any case and at offset 0 otherwise, and once the stream
\* has been read to its end the chunks submitted are the bytes from that offset
\* to the end of the file, in order, without gap or overlap.
C13_WavHeaderSkipped ==
    prog = "run" =>
        LET start == IF NamedWav(file) THEN 44 ELSE 0
            n     == Len(scheduled)
        IN  /\ n > 0 => scheduled[1].off = start
            /\ \A k \in 1 .. (n - 1) :
                   scheduled[k + 1].off = scheduled[k].off + scheduled[k].len
            /\ EofRead =>
                   spos = IF n = 0 THEN start ELSE scheduled[n].off + scheduled[n].len

\* C13 witness: a file named in capitals has been played to its end in three chunks
C13_Witness ==
    /\ prog = "run" /\ pc = "closed" /\ EofRead
    /\ file[Len(file)] = "V"
    /\ Len(scheduled) = 3 /\ scheduled[1].off = 44

\* the position in the submission order of the block slot x holds
LastSubmission(x) ==
    LET ks == {k \in DOMAIN scheduled : scheduled[k].slot = x}
    IN  CHOOSE k \in ks : \A j \in ks : j <= k

\* C14: whenever a slot is in flight during a completion wait, the slot polled,
\* headers[curblock], is in flight and holds the earliest-submitted block of all
\* slots in flight, whatever the order in which the device has finished blocks; the
\* cursor advances by one modulo blocknum at the end of every wait, so slots are
\* reclaimed in the order they were submitted.
C14_OldestSlotPolled ==
    /\ []((pc = "poll" /\ \E x \in Slots : InFlight(headers[x])) =>
            /\ InFlight(headers[curblock])
            /\ \A x \in Slots : InFlight(headers[x]) =>
                   LastSubmission(curblock) <= LastSubmission(x))
    /\ [][WaitEnds => curblock' = (curblock + 1) % blocknum]_vars
    /\ [][~WaitEnds /\ pc # "begin" => curblock' = curblock]_vars

\* C14 witness: both slots are in flight, the device has already finished the later
\* block (slot 0, resubmitted) and not the earlier one (slot 1), which is the one
\* polled
C14_Witness ==
    /\ pc = "poll" /\ curblock = 1
    /\ Len(scheduled) >= 3
    /\ headers[0] = {"DONE", "PREPARED"}
    /\ "INQUEUE" \in headers[1]

\* C15: once stream.read has returned a zero-length chunk, the stopping condition is
\* set (stopping in play(), self.stopping through self.stop() in run()), no block is
\* submitted for that read, the fill pass is over, and that read is the last
\* stream.read of the session.
C15_EofEndsReading ==
    /\ \A k \in DOMAIN readlog : readlog[k].len = 0 => k = Len(readlog)
    /\ \A k \in DOMAIN scheduled : scheduled[k].len # 0
    /\ EofRead =>
          /\ pc # "fill"
          /\ Len(scheduled) = Len(readlog) - 1
          /\ IF prog = "play" THEN stopping
             ELSE \/ pc \in {"eofLock", "eofSet"}
                  \/ selfStopping
                  \/ pc \in {"lockPlay2", "clearPlaying", "done", "closed"}

\* C15 witness: the zero-length read came in the third fill pass, and play() has
\* since gone through its completion wait and returned
C15_Witness ==
    /\ prog = "play" /\ pc = "done"
    /\ EofRead /\ Len(readlog) = 4 /\ Len(scheduled) = 3

\* a step that makes one completion poll
Polls == pc = "poll" /\ pollsnum' = pollsnum + 1

\* C16: a completion poll that returns WAVERR_STILLPLAYING leaves every slot, the
\* cursor and the session as they are, and the loop stays in its completion wait on
\* the same slot; a poll that returns anything other than still-playing or success
\* ends the loop, and after it no stream.read, no _schedule_block call and no
\* completion poll is made.
C16_StillPlayingRetriesErrorFatal ==
    /\ [][(Polls /\ ret' = "STILLPLAYING") =>
             /\ headers' = headers /\ curblock' = curblock
             /\ pc' = "poll" /\ fault' = "none"]_vars
    /\ [][(Polls /\ ret' \notin {"STILLPLAYING", "NOERROR"}) => pc' = "crashed"]_vars
    /\ [][pc = "crashed" =>
             /\ pc' = "crashed"
             /\ readlog' = readlog /\ scheduled' = scheduled /\ pollsnum' = pollsnum]_vars

\* C16 witness: the first poll of a wait found the block still playing, the second
\* poll of the same slot failed, and the loop has ended there
C16_Witness ==
    /\ pc = "crashed" /\ fault = "waveOutUnprepareHeader"
    /\ ret = "ERROR" /\ pollsnum = 2
    /\ "INQUEUE" \in headers[curblock]

\* run() is suspended at self.playEvent.wait() by a pause()
Suspended == prog = "run" /\ pc = "wait" /\ ~playEvent

\* C17: in run(), if pause() is followed by resume() and by no later pause() (the
\* event ends up set for good), a loop suspended at playEvent.wait() continues:
\* every slot in flight at the suspension is eventually reclaimed, and the stream
\* is eventually read to its end with every chunk read submitted once, in order;
\* granted that the device completes every block and no stop() is requested.
C17_ResumeContinues ==
    (<>[]playEvent) =>
        /\ \A x \in Slots :
               (Suspended /\ InFlight(headers[x]))
                   ~> (~InFlight(headers[x]) \/ selfStopping \/ DeviceFailed)
        /\ Suspended
               ~> ((EofRead /\ ScheduledChunks = ReadChunks) \/ selfStopping \/ DeviceFailed)

\* a step of pause(), resume(), stop() or isPlaying()
ControlStep == ctl' # ctl \/ playEvent' # playEvent

\* C18: in run()'s class, a step of pause(), resume(), stop() or isPlaying() leaves
\* every slot's flags, curblock, prevlen and divideBase (and the rest of the loop's
\* state) as they are; of the shared flags it changes only the pause event (pause,
\* resume) or self.stopping (stop), and isPlaying() changes none.
C18_ControlFrame ==
    [][ControlStep =>
          /\ headers' = headers /\ curblock' = curblock
          /\ prevlen' = prevlen /\ divideBase' = divideBase
          /\ freeids' = freeids /\ pollsnum' = pollsnum /\ readlen' = readlen
          /\ spos' = spos /\ pc' = pc
          /\ _isPlaying' = _isPlaying
          /\ (selfStopping' # selfStopping => ctl = "stop")
          /\ (playEvent' # playEvent => ctl = "ready" /\ ctl' = "ready")
          /\ (ctl \in {"isPlaying"} \/ ctl' = "isPlaying"
                 => selfStopping' = selfStopping /\ playEvent' = playEvent)]_vars

\* C18 witness: stop() has just set the flag in mid-session, with the loop paused,
\* a block in flight, the cursor advanced and the factor tuned
C18_Witness ==
    /\ acc.by = "ctl" /\ acc.flag = "stopping"
    /\ Live /\ ~playEvent
    /\ curblock = 1 /\ divideBase > 105 /\ prevlen > 0
    /\ \E x \in Slots : InFlight(headers[x])

\* C19: every completion poll of play() and run() is made on a slot that has been
\* submitted and not yet reclaimed, never on a slot that was never submitted or is
\* already free, whatever the source returns (a zero-length first read included).
C19_PollsSubmittedSlot == [][Polls => InFlight(headers[curblock])]_vars

\* the slot just before the cursor: the one the latest completion wait polled
PrevBlock(c) == (c + blocknum - 1) % blocknum

\* a slot turns reclaimable only by a successful completion poll of that very slot
ReclaimedByPollOnly ==
    \A x \in Slots :
        (~IsFree(headers[x]) /\ IsFree(headers'[x]))
            => (Polls /\ ret' = "NOERROR" /\ curblock = x)

\* the step of an iteration that begins its fill pass (ret is unset only during
\* the first iteration)
EntersFill == pc # "fill" /\ pc' = "fill"

\* a stream.read of an iteration after the first is made on the only reclaimable
\* slot and leaves none for a second read
OneReadPerIteration ==
    (readlog' # readlog /\ ret # "none")
        => (freeids = <<PrevBlock(curblock)>> /\ (pc' = "fill" => freeids' = <<>>))

\* C20 as stated: a slot becomes reclaimable only through a successful completion
\* poll of that slot, and in every loop iteration after the first, the one that
\* leaves the loop included, the reclaimable set is exactly the slot just before
\* the cursor, with at most one stream.read.
C20_OneFreeSlotEveryIteration ==
    /\ [][ReclaimedByPollOnly]_vars
    /\ [][(pc = LoopTop /\ pc' # pc /\ ret # "none")
             => freeids' = <<PrevBlock(curblock)>>]_vars
    /\ [][OneReadPerIteration]_vars

\* C20 amended: a slot becomes reclaimable only through a successful completion
\* poll of that slot (a block the device has finished is not reclaimable before),
\* and in every iteration after the first that goes on to its fill pass the
\* reclaimable set is exactly the slot just before the cursor, with at most one
\* stream.read; the pass that leaves the loop may find every slot reclaimable.
C20_OneFreeSlotPerFillPass ==
    /\ [][ReclaimedByPollOnly]_vars
    /\ [](\A x \in Slots : headers[x] = {"DONE", "PREPARED"} => ~IsFree(headers[x]))
    /\ [][(EntersFill /\ ret # "none") => freeids' = <<PrevBlock(curblock)>>]_vars
    /\ [][OneReadPerIteration]_vars

\* C20 witness: a later iteration of play() is in its fill pass with slot 0 alone
\* reclaimable, while the device has finished the block of slot 1, which the
\* cursor has not reclaimed yet
C20_Witness ==
    /\ prog = "play" /\ pc = "fill" /\ ret = "NOERROR"
    /\ freeids = <<0>> /\ curblock = 1
    /\ headers[1] = {"DONE", "PREPARED"}

\* C21: when run() has left its loop after a zero-length read and no other thread
\* called stop() during the session, no slot is in flight: every block submitted has
\* been reclaimed by a successful waveOutUnprepareHeader.
C21_EofExitsDrained ==
    (prog = "run" /\ LoopLeft /\ EofRead /\ ~ctlStopped)
        => \A x \in Slots : ~InFlight(headers[x])

\* C21 witness: run() has left its loop after three chunks and the zero-length read,
\* with no stop() from the other thread
C21_Witness ==
    /\ prog = "run" /\ pc = "closing" /\ EofRead /\ ~ctlStopped
    /\ Len(scheduled) = 3
    /\ \A x \in Slots : headers[x] = {"DONE"}

\* no other thread has called stop() before or during this session: the stop
\* request run() sees or has seen, if any, is its own, made on the zero-length read
NoControlStop ==
    /\ ~ctlStopped /\ ctl # "stop"
    /\ ((selfStopping /\ Live) \/ stopping) => EofRead

\* the slot a completion wait polls, as a function of the reads made so far: before
\* the zero-length read the older of the two blocks in flight, after it the last
\* block submitted (slot 0 if there is none)
ExpectedPoll ==
    LET n == Len(scheduled)
    IN  IF ~EofRead THEN n % blocknum
        ELSE IF n = 0 THEN 0 ELSE (n - 1) % blocknum

\* C22: with no stop() from another thread (a pause() that is resumed only delays
\* the loop), run() and play() are the same function of the read results and the
\* device responses: the k-th chunk read is the k-th block submitted, to slot
\* (k - 1) mod blocknum; every completion wait polls the slot the reads so far
\* determine; no fill pass follows the zero-length read and the loop is left only
\* after it, with every slot free, so both loops make the same number of iterations.
C22_SameSchedule ==
    (prog = "play" \/ NoControlStop) =>
        /\ \A k \in DOMAIN scheduled :
               /\ scheduled[k].slot = (k - 1) % blocknum
               /\ scheduled[k].len = ReadChunks[k].len
        /\ Len(ReadChunks) - Len(scheduled) \in {0, 1}
        /\ Len(ReadChunks) # Len(scheduled) => fault = "ValueError"
        /\ pc = "poll" => curblock = ExpectedPoll
        /\ pc = "fill" => ~stopping /\ ~EofRead
        /\ (LoopLeft \/ PlayReturned) =>
               EofRead /\ \A x \in Slots : IsFree(headers[x])

\* C22 witness (run() side): three chunks and the zero-length read, no stop() from
\* the other thread, the loop is in the completion wait after the zero-length read
C22_Witness ==
    /\ prog = "run" /\ NoControlStop /\ BUFSIZE = 40 * 2^10
    /\ pc = "poll" /\ EofRead /\ Len(scheduled) = 3 /\ curblock = 0

====
